---- MODULE Spec2Model ----
(***************************************************************************)
(* License / activation backend (Flask + SQLAlchemy): users, per-device    *)
(* trial windows, activation keys and the entitlement evaluators.          *)
(*                                                                         *)
(* Time is an integer number of ticks; one day is DayLen ticks, so that    *)
(* timedelta(days=d) is d * DayLen and timedelta.days is a floor division. *)
(* Rows of a table are a function from the primary key (users, keys) or    *)
(* from the unique (device_id, platform) pair (devices) to a record.       *)
(***************************************************************************)
EXTENDS Integers, FiniteSets, Sequences, TLC

\* ------------------------------------------------------------ bounds
MaxTime == 2
DayLen == 2
MaxKeys == 2
MaxUsers == 2
MaxDuration == 2
MaxChanges == 1

\* ------------------------------------------------- program constants
TRIAL_DURATION_DAYS == 3
SUPERADMIN_ID == 1
ADMIN_DAYS_REMAINING == 999
MAX_BATCH == 100

\* None in a nullable integer / timestamp column
NULL == -1
\* None in a nullable string column
NoEmail == "NULL"

Emails == {"a@x", "b@x"}
RootEmail == "root@x"
DeviceIds == {"d1"}
Platforms == {"android", "web"}
DevicePairs == DeviceIds \X Platforms
Codes == {"AAAA", "BBBB"}
Durations == 0..MaxDuration
Workers == {"w1", "w2"}

VARIABLES
    users,      \* users table: id -> [email, is_active, is_admin, password_hash]
    keys,       \* activation_keys table: id -> ActivationKey row
    devices,    \* devices table: <<device_id, platform>> -> Device row
    nextKeyId,  \* next value of the activation_keys id sequence
    now,        \* the wall clock
    resp,       \* the response to the last request, when its endpoint is watched
    watch,      \* the endpoints whose responses are recorded (fixed in a behaviour)
    reqs,       \* requests in flight between their read and their commit
    gen         \* the key generator: symbols drawn so far, and the key returned

vars == <<users, keys, devices, nextKeyId, now, resp, watch, reqs, gen>>
db == <<users, keys, devices, nextKeyId>>

\* ------------------------------------------------------------ helpers
Max(a, b) == IF a >= b THEN a ELSE b
Min(a, b) == IF a <= b THEN a ELSE b

\* datetime + timedelta(days=d)
PlusDays(t, d) == t + d * DayLen

\* (a - b).days : timedelta normalises to a floor division by one day
DaysBetween(a, b) == (a - b) \div DayLen

\* ------------------------------------------------------------- rows
\* password_hash: "h0" is the hash stored at creation, "h1" a hash stored since
NewUser(email) ==
    [email |-> email, is_active |-> TRUE, is_admin |-> FALSE, password_hash |-> "h0"]

\* a key row that never records the sale date
NewKeyNoSoldAt(code, duration, status, sold_at) ==
    [key_code |-> code, duration_days |-> duration, status |-> status,
     user_id |-> NULL, activated_email |-> NoEmail,
     activated_at |-> NULL, expires_at |-> NULL, sold_at |-> NULL]

NewKey(code, duration, status, sold_at) ==
    [key_code |-> code, duration_days |-> duration, status |-> status,
     user_id |-> NULL, activated_email |-> NoEmail,
     activated_at |-> NULL, expires_at |-> NULL, sold_at |-> sold_at]

NewDevice(uid, started, expires) ==
    [user_id |-> uid, trial_started_at |-> started, trial_expires_at |-> expires]

\* ---------------------------------------------------------- responses
NoAct == [status |-> "none", days_remaining |-> NULL, key |-> NULL]

Resp(op, caller, target, code, err, act) ==
    [op |-> op, caller |-> caller, target |-> target, code |-> code,
     err |-> err, act |-> act]

NoResp == Resp("none", NULL, NULL, NULL, "", NoAct)

\* the response r leaves the handler; it is recorded when r.op is watched
Reply(r) == resp' = IF r.op \in watch THEN r ELSE NoResp

\* -------------------------------------------------------- key generator
\* the alphabet of key_generator.py, one string per character
CharsWithO ==
    <<"A","B","C","D","E","F","G","H","J","K","M","N","O","P","Q","R",
      "S","T","U","V","W","X","Y","Z","2","3","4","5","6","7","8","9">>

\* an alphabet that keeps the letter L
CharsWithL ==
    <<"A","B","C","D","E","F","G","H","J","K","L","M","N","P","Q","R",
      "S","T","U","V","W","X","Y","Z","2","3","4","5","6","7","8","9">>

CHARS ==
    <<"A","B","C","D","E","F","G","H","J","K","M","N","P","Q","R",
      "S","T","U","V","W","X","Y","Z","2","3","4","5","6","7","8","9">>

GROUPS == 4
GROUP_LEN == 4

\* ''.join of the picks of group g
Group(picks, g) == SubSeq(picks, GROUP_LEN * (g - 1) + 1, GROUP_LEN * g)

\* sep.join(groups)
RECURSIVE Join(_, _)
Join(sep, groups) ==
    IF Len(groups) = 0 THEN <<>>
    ELSE IF Len(groups) = 1 THEN groups[1]
    ELSE groups[1] \o <<sep>> \o Join(sep, Tail(groups))

\* the key built from GROUPS * GROUP_LEN picks
GenerateActivationKey(picks) == Join("-", [g \in 1..GROUPS |-> Group(picks, g)])

\* number of places where a pick differs from the pick before it
Changes(picks) == Cardinality({i \in 1..(Len(picks) - 1) : picks[i] # picks[i + 1]})

NoGen == [picks |-> <<>>, code |-> <<>>]

\* ---------------------------------------------------- requests in flight
\* A request that has read its row and not yet committed holds the row as it
\* read it (the session's identity map) and the clock value it took.
NoRow == NewKey("", 0, "none", NULL)

\* device_id = '' : the request names no device
NoPair == <<"", "android">>

Idle ==
    [pc |-> "idle", op |-> "none", user |-> NULL, arg |-> "", dur |-> NULL,
     pair |-> NoPair,
     key |-> NULL, snap |-> NoRow, t |-> NULL, code |-> NULL, err |-> ""]

Pending(op, user, arg, key, snap, t) ==
    [pc |-> "commit", op |-> op, user |-> user, arg |-> arg, dur |-> NULL,
     pair |-> NoPair,
     key |-> key, snap |-> snap, t |-> t, code |-> NULL, err |-> ""]

Done(req, code, err) == [req EXCEPT !.pc = "done", !.code = code, !.err = err]

\* The UPDATE a commit flushes: the unit of work writes the columns whose value
\* differs from the value loaded, and leaves the other columns of the row alone.
Flush(row, snap, new) ==
    [f \in DOMAIN row |-> IF new[f] # snap[f] THEN new[f] ELSE row[f]]

\* ------------------------------------------------------ authentication
JwtRequiredCustom(u) ==
    IF u \notin DOMAIN users THEN 404
    ELSE IF ~users[u].is_active THEN 403
    ELSE 200

\* a decorator that lets every active account through
AdminRequiredActiveOnly(u) ==
    IF u \notin DOMAIN users THEN 404
    ELSE IF ~users[u].is_active THEN 403
    ELSE 200

AdminRequired(u) ==
    IF u \notin DOMAIN users THEN 404
    ELSE IF ~users[u].is_active THEN 403
    ELSE IF ~users[u].is_admin THEN 403
    ELSE 200

\* ------------------------------------------------ entitlement evaluation
\* rows matched by  user_id == u, status == 'activated', expires_at > t
ActiveKeys(u, t) ==
    {k \in DOMAIN keys : /\ keys[k].user_id = u
                         /\ keys[k].status = "activated"
                         /\ keys[k].expires_at # NULL
                         /\ keys[k].expires_at > t}

\* a trial still counted at the instant it expires
ActiveTrialsInclusive(u, t) ==
    {p \in DOMAIN devices : /\ devices[p].user_id = u
                            /\ devices[p].trial_expires_at >= t}

\* rows matched by  user_id == u, trial_expires_at > t
ActiveTrials(u, t) ==
    {p \in DOMAIN devices : /\ devices[p].user_id = u
                            /\ devices[p].trial_expires_at > t}

KeyResult(k, t) ==
    [status |-> "active",
     days_remaining |-> Max(0, DaysBetween(keys[k].expires_at, t)),
     key |-> k]

TrialResult(p, t) ==
    [status |-> "trial",
     days_remaining |-> Max(0, DaysBetween(devices[p].trial_expires_at, t)),
     key |-> NULL]

ExpiredResult == [status |-> "expired", days_remaining |-> 0, key |-> NULL]

AdminResult == [status |-> "active", days_remaining |-> ADMIN_DAYS_REMAINING, key |-> NULL]

\* the trial looked up before the key
TrialOrKey(u, t) ==
    IF ActiveTrials(u, t) # {} THEN {TrialResult(p, t) : p \in ActiveTrials(u, t)}
    ELSE IF ActiveKeys(u, t) # {} THEN {KeyResult(k, t) : k \in ActiveKeys(u, t)}
    ELSE {ExpiredResult}

\* The key / trial branches shared by the evaluators.  .first() has no
\* ORDER BY: any matching row may be the one returned.
KeyOrTrial(u, t) ==
    IF ActiveKeys(u, t) # {} THEN {KeyResult(k, t) : k \in ActiveKeys(u, t)}
    ELSE IF ActiveTrials(u, t) # {} THEN {TrialResult(p, t) : p \in ActiveTrials(u, t)}
    ELSE {ExpiredResult}

\* auth._get_activation_status : register / login / me
GetActivationStatus(u, t) ==
    IF users[u].is_admin THEN {AdminResult} ELSE KeyOrTrial(u, t)

\* activation.status : GET /activation/status
StatusResult(u, t) == KeyOrTrial(u, t)

\* admin.get_user : activation_status and activation_expires of the target
GetUserActivation(u, t) ==
    IF users[u].is_admin
    THEN {[status |-> "active", activation_expires |-> NULL]}
    ELSE IF ActiveKeys(u, t) # {}
    THEN {[status |-> "active", activation_expires |-> keys[k].expires_at] :
             k \in ActiveKeys(u, t)}
    ELSE IF ActiveTrials(u, t) # {}
    THEN {[status |-> "trial", activation_expires |-> devices[p].trial_expires_at] :
             p \in ActiveTrials(u, t)}
    ELSE {[status |-> "expired", activation_expires |-> NULL]}

\* ---------------------------------------------------------------- Init
\* The database after construction: the superadmin account and nothing else.
EmptyDb ==
    /\ users = (SUPERADMIN_ID :> [NewUser(RootEmail) EXCEPT !.is_admin = TRUE])
    /\ keys = <<>>
    /\ devices = <<>>
    /\ nextKeyId = 1

\* The database one request later: "a@x" has registered from (d1, android) at
\* time 0 and holds the trial that registration grants.
OneClientDb ==
    /\ users = (SUPERADMIN_ID :> [NewUser(RootEmail) EXCEPT !.is_admin = TRUE])
               @@ (2 :> NewUser("a@x"))
    /\ keys = <<>>
    /\ devices = (<<"d1", "android">> :> NewDevice(2, 0, PlusDays(0, TRIAL_DURATION_DAYS)))
    /\ nextKeyId = 1

Quiet ==
    /\ now = 0
    /\ resp = NoResp
    /\ reqs = [w \in Workers |-> Idle]
    /\ gen = NoGen

\* ---------------------------------------------------------------- clock
Tick ==
    /\ now < MaxTime
    /\ now' = now + 1
    /\ resp' = NoResp
    /\ UNCHANGED <<db, watch, gen, reqs>>

\* ------------------------------------------------------------ /auth
LoginPairs == DevicePairs \cup {NoPair}

NextUserId == Cardinality(DOMAIN users) + 1

\* a device check that looks at the android rows only
ExistingDeviceAndroidOnly(pair) == pair \in DOMAIN devices /\ pair[2] = "android"

\* Device.query.filter_by(device_id=device_id, platform=platform).first()
ExistingDevice(pair) == pair \in DOMAIN devices

\* POST /auth/register
Register(email, pair) ==
    /\ UNCHANGED <<now, watch, gen, reqs>>
    /\ IF \E u \in DOMAIN users : users[u].email = email
       THEN /\ Reply(Resp("register", NULL, NULL, 409, "email_taken", NoAct))
            /\ UNCHANGED db
       ELSE IF ExistingDevice(pair)
       THEN /\ Reply(Resp("register", NULL, NULL, 409, "trial_used", NoAct))
            /\ UNCHANGED db
       ELSE \E uid \in {NextUserId} :
            /\ uid <= MaxUsers
            /\ users' = users @@ (uid :> NewUser(email))
            /\ devices' = devices @@
                   (pair :> NewDevice(uid, now, PlusDays(now, TRIAL_DURATION_DAYS)))
            /\ UNCHANGED <<keys, nextKeyId>>
            /\ \E a \in GetActivationStatus(uid, now)' :
                   Reply(Resp("register", uid, NULL, 201, "", a))

\* POST /auth/login ; pwok: the password matches the stored hash
Login(u, pwok, pair) ==
    /\ UNCHANGED <<now, watch, gen, reqs, users, keys, nextKeyId>>
    /\ IF u \notin DOMAIN users \/ ~pwok
       THEN /\ Reply(Resp("login", u, NULL, 401, "bad_credentials", NoAct))
            /\ UNCHANGED devices
       ELSE IF ~users[u].is_active
       THEN /\ Reply(Resp("login", u, NULL, 403, "disabled", NoAct))
            /\ UNCHANGED devices
       ELSE IF pair # NoPair /\ ~(pair \in DOMAIN devices /\ devices[pair].user_id = u)
       THEN IF pair \in DOMAIN devices
            THEN \* uq_device_platform rejects the insert: IntegrityError, rollback
                 /\ Reply(Resp("login", u, NULL, 500, "integrity", NoAct))
                 /\ UNCHANGED devices
            ELSE /\ devices' = devices @@ (pair :> NewDevice(u, now, now))
                 /\ \E a \in GetActivationStatus(u, now)' :
                        Reply(Resp("login", u, NULL, 200, "", a))
       ELSE /\ UNCHANGED devices
            /\ \E a \in GetActivationStatus(u, now) :
                   Reply(Resp("login", u, NULL, 200, "", a))

\* GET /auth/me
Me(u) ==
    /\ UNCHANGED <<db, now, watch, gen, reqs>>
    /\ IF JwtRequiredCustom(u) # 200
       THEN Reply(Resp("me", u, NULL, JwtRequiredCustom(u), "auth", NoAct))
       ELSE \E a \in GetActivationStatus(u, now) :
                Reply(Resp("me", u, NULL, 200, "", a))

\* ------------------------------------------------------ /activation
\* GET /activation/status
Status(u) ==
    /\ UNCHANGED <<db, now, watch, gen, reqs>>
    /\ IF JwtRequiredCustom(u) # 200
       THEN Reply(Resp("status", u, NULL, JwtRequiredCustom(u), "auth", NoAct))
       ELSE \E a \in StatusResult(u, now) :
                Reply(Resp("status", u, NULL, 200, "", a))

\* an activation that leaves activated_email as it was
ActivatedNoEmail(key, uid, email, t) ==
    [key EXCEPT !.user_id = uid,
                !.activated_at = t,
                !.expires_at = PlusDays(t, key.duration_days),
                !.status = "activated"]

\* the five assignments of activate / assign_key
Activated(key, uid, email, t) ==
    [key EXCEPT !.user_id = uid,
                !.activated_email = email,
                !.activated_at = t,
                !.expires_at = PlusDays(t, key.duration_days),
                !.status = "activated"]

KeysWithCode(code) == {k \in DOMAIN keys : keys[k].key_code = code}

\* a status check that lets a revoked key through
ActivateCheckNoRevoked(key) ==
    IF key.status = "activated" THEN 409
    ELSE IF key.status \notin {"available", "sold", "revoked"} THEN 400
    ELSE 200

\* the key's status check of activate: 200 when the key may be activated
ActivateCheck(key) ==
    IF key.status = "activated" THEN 409
    ELSE IF key.status = "revoked" THEN 409
    ELSE IF key.status \notin {"available", "sold"} THEN 400
    ELSE 200

ActivateErr(key) ==
    IF key.status = "activated" THEN "already_activated"
    ELSE IF key.status = "revoked" THEN "revoked"
    ELSE "invalid_state"

\* POST /activation/activate
Activate(u, code) ==
    /\ UNCHANGED <<now, watch, gen, reqs, users, devices, nextKeyId>>
    /\ IF JwtRequiredCustom(u) # 200
       THEN /\ Reply(Resp("activate", u, NULL, JwtRequiredCustom(u), "auth", NoAct))
            /\ UNCHANGED keys
       ELSE IF KeysWithCode(code) = {}
       THEN /\ Reply(Resp("activate", u, NULL, 404, "invalid_key", NoAct))
            /\ UNCHANGED keys
       ELSE LET k == CHOOSE k \in KeysWithCode(code) : TRUE IN
            IF ActivateCheck(keys[k]) # 200
            THEN /\ Reply(Resp("activate", u, k, ActivateCheck(keys[k]),
                                 ActivateErr(keys[k]), NoAct))
                 /\ UNCHANGED keys
            ELSE /\ keys' = [keys EXCEPT ![k] = Activated(keys[k], u, users[u].email, now)]
                 /\ Reply(Resp("activate", u, k, 200, "",
                                 [status |-> "active",
                                  days_remaining |-> keys[k].duration_days,
                                  key |-> k]))

\* a check that counts only the devices on which a trial was granted
CheckDeviceGranted(pair) ==
    pair \in DOMAIN devices
    /\ devices[pair].trial_expires_at > devices[pair].trial_started_at

\* existing is not None, for the row with this device_id and platform
CheckDeviceUsed(pair) == pair \in DOMAIN devices

\* POST /activation/check-device (no authentication); the answer's trial_used
\* is recorded in the status of the response
CheckDevice(pair) ==
    /\ UNCHANGED <<db, now, watch, gen, reqs>>
    /\ Reply(Resp("check_device", NULL, NULL, 200, "",
                  [NoAct EXCEPT !.status = IF CheckDeviceUsed(pair)
                                           THEN "trial_used" ELSE "trial_unused"]))

\* ------------------------------------------------------------ /admin
\* a lookup of the target that does not single out the superadmin
TargetMissing(target) == target \notin DOMAIN users

\* user_id == 1, or User.query.get(user_id) is None
TargetNotFound(target) == target = SUPERADMIN_ID \/ target \notin DOMAIN users

FlagInputs == {"absent", "true", "false"}

\* 'password' in the body: absent, shorter than 6 characters, or acceptable
PasswordInputs == {"absent", "short", "valid"}

SetFlag(old, input) == IF input = "absent" THEN old ELSE (input = "true")

\* GET /admin/users/<user_id>
GetUser(admin, target) ==
    /\ UNCHANGED <<db, now, watch, gen, reqs>>
    /\ IF AdminRequired(admin) # 200
       THEN Reply(Resp("get_user", admin, target, AdminRequired(admin), "auth", NoAct))
       ELSE IF TargetNotFound(target)
       THEN Reply(Resp("get_user", admin, target, 404, "user_not_found", NoAct))
       ELSE \E a \in GetUserActivation(target, now) :
                Reply(Resp("get_user", admin, target, 200, "", a))

\* PUT /admin/users/<user_id>
UpdateUser(admin, target, active, adm, pw) ==
    /\ UNCHANGED <<now, watch, gen, reqs, keys, devices, nextKeyId>>
    /\ IF AdminRequired(admin) # 200
       THEN /\ Reply(Resp("update_user", admin, target, AdminRequired(admin), "auth", NoAct))
            /\ UNCHANGED users
       ELSE IF TargetNotFound(target)
       THEN /\ Reply(Resp("update_user", admin, target, 404, "user_not_found", NoAct))
            /\ UNCHANGED users
       ELSE IF pw = "short"
       THEN \* returns before the commit: the flags assigned above are dropped
            /\ Reply(Resp("update_user", admin, target, 400, "password", NoAct))
            /\ UNCHANGED users
       ELSE /\ users' = [users EXCEPT ![target] =
                            [@ EXCEPT !.is_active = SetFlag(@, active),
                                      !.is_admin = SetFlag(@, adm),
                                      !.password_hash = IF pw = "valid" THEN "h1" ELSE @]]
            /\ Reply(Resp("update_user", admin, target, 200, "", NoAct))

\* a lookup that also requires the key to be unexpired
ActivatedKeysOfLive(target) ==
    {k \in DOMAIN keys : /\ keys[k].user_id = target
                         /\ keys[k].status = "activated"
                         /\ keys[k].expires_at # NULL
                         /\ keys[k].expires_at > now}

\* rows matched by  user_id == target, status == 'activated'
ActivatedKeysOf(target) ==
    {k \in DOMAIN keys : keys[k].user_id = target /\ keys[k].status = "activated"}

\* an extension that always restarts the window from t
ExtendedFromNow(key, days, t) ==
    [key EXCEPT !.activated_at = t,
                !.expires_at = PlusDays(t, days),
                !.duration_days = days]

\* an extension that always adds to the current expiry
ExtendedFromExpiry(key, days, t) ==
    [key EXCEPT !.expires_at = PlusDays(key.expires_at, days),
                !.duration_days = key.duration_days + days]

\* the two branches of extend_license
Extended(key, days, t) ==
    IF key.expires_at # NULL /\ key.expires_at > t
    THEN [key EXCEPT !.expires_at = PlusDays(key.expires_at, days),
                     !.duration_days = key.duration_days + days]
    ELSE [key EXCEPT !.activated_at = t,
                     !.expires_at = PlusDays(t, days),
                     !.duration_days = days]

\* POST /admin/users/<user_id>/extend
ExtendLicense(admin, target, days) ==
    /\ UNCHANGED <<now, watch, gen, reqs, users, devices, nextKeyId>>
    /\ IF AdminRequired(admin) # 200
       THEN /\ Reply(Resp("extend", admin, target, AdminRequired(admin), "auth", NoAct))
            /\ UNCHANGED keys
       ELSE IF TargetNotFound(target)
       THEN /\ Reply(Resp("extend", admin, target, 404, "user_not_found", NoAct))
            /\ UNCHANGED keys
       ELSE IF days < 1
       THEN /\ Reply(Resp("extend", admin, target, 400, "days", NoAct))
            /\ UNCHANGED keys
       ELSE IF ActivatedKeysOf(target) = {}
       THEN /\ Reply(Resp("extend", admin, target, 404, "no_activated_key", NoAct))
            /\ UNCHANGED keys
       ELSE \E k \in ActivatedKeysOf(target) :
            /\ Extended(keys[k], days, now).duration_days <= MaxDuration
            /\ keys' = [keys EXCEPT ![k] = Extended(keys[k], days, now)]
            /\ Reply(Resp("extend", admin, target, 200, "", NoAct))

\* a status check of assign_key that lets a revoked key through
AssignableOrRevoked(key) == key.status \in {"available", "sold", "revoked"}

\* key.status in ('available', 'sold')
Assignable(key) == key.status \in {"available", "sold"}

\* POST /admin/users/<user_id>/assign-key
AssignKey(admin, target, key_id) ==
    /\ UNCHANGED <<now, watch, gen, reqs, users, devices, nextKeyId>>
    /\ IF AdminRequired(admin) # 200
       THEN /\ Reply(Resp("assign", admin, target, AdminRequired(admin), "auth", NoAct))
            /\ UNCHANGED keys
       ELSE IF TargetNotFound(target)
       THEN /\ Reply(Resp("assign", admin, target, 404, "user_not_found", NoAct))
            /\ UNCHANGED keys
       ELSE IF key_id \notin DOMAIN keys
       THEN /\ Reply(Resp("assign", admin, target, 404, "key_not_found", NoAct))
            /\ UNCHANGED keys
       ELSE IF ~Assignable(keys[key_id])
       THEN /\ Reply(Resp("assign", admin, target, 400, "used_or_revoked", NoAct))
            /\ UNCHANGED keys
       ELSE /\ keys' = [keys EXCEPT ![key_id] =
                           Activated(@, target, users[target].email, now)]
            /\ Reply(Resp("assign", admin, target, 200, "", NoAct))

\* a batch size without the lower clamp
BatchSizeAtMost(count) == Min(count, MAX_BATCH)

\* count = min(max(1, count), 100)
BatchSize(count) == Min(Max(1, count), MAX_BATCH)

\* POST /admin/keys/generate ; sold: sold_to_name or sold_to_email is given
GenerateKeys(admin, count, duration, sold) ==
    /\ UNCHANGED <<now, watch, gen, reqs, users, devices>>
    /\ IF AdminRequired(admin) # 200
       THEN /\ Reply(Resp("generate", admin, NULL, AdminRequired(admin), "auth", NoAct))
            /\ UNCHANGED <<keys, nextKeyId>>
       ELSE LET n == BatchSize(count)
                ids == nextKeyId..(nextKeyId + n - 1)
            IN
            /\ nextKeyId + n - 1 <= MaxKeys
            /\ \E cs \in [ids -> Codes] :
                 IF \/ \E i, j \in ids : i # j /\ cs[i] = cs[j]
                    \/ \E i \in ids : KeysWithCode(cs[i]) # {}
                 THEN \* key_code is unique: IntegrityError, the batch is rolled back
                      /\ Reply(Resp("generate", admin, NULL, 500, "integrity", NoAct))
                      /\ UNCHANGED <<keys, nextKeyId>>
                 ELSE /\ keys' = [k \in DOMAIN keys \cup ids |->
                                    IF k \in ids
                                    THEN NewKey(cs[k], duration,
                                                IF sold THEN "sold" ELSE "available",
                                                IF sold THEN now ELSE NULL)
                                    ELSE keys[k]]
                      /\ nextKeyId' = nextKeyId + n
                      /\ Reply(Resp("generate", admin, n, 201, "", NoAct))

StatusInputs == {"absent", "revoked", "sold", "activated"}

\* an UPDATE of the devices without the  trial_expires_at > t  filter
ExpireTrialsOfUser(uid, t) ==
    [p \in DOMAIN devices |->
        IF devices[p].user_id = uid
        THEN [devices[p] EXCEPT !.trial_expires_at = t]
        ELSE devices[p]]

\* Device.query.filter(user_id == uid, trial_expires_at > t).update(trial_expires_at = t)
ExpireTrials(uid, t) ==
    [p \in DOMAIN devices |->
        IF devices[p].user_id = uid /\ devices[p].trial_expires_at > t
        THEN [devices[p] EXCEPT !.trial_expires_at = t]
        ELSE devices[p]]

\* a revocation that clears the owner but keeps the activation window
WithStatusKeepsWindow(key, new_status, t) ==
    IF new_status = "revoked"
    THEN [key EXCEPT !.status = "revoked", !.user_id = NULL,
                     !.activated_email = NoEmail]
    ELSE IF new_status = "sold" /\ key.status = "available"
    THEN [key EXCEPT !.status = "sold", !.sold_at = t]
    ELSE key

\* the 'status' branch of update_key
WithStatus(key, new_status, t) ==
    IF new_status = "revoked"
    THEN [key EXCEPT !.status = "revoked", !.user_id = NULL,
                     !.activated_email = NoEmail,
                     !.activated_at = NULL, !.expires_at = NULL]
    ELSE IF new_status = "sold" /\ key.status = "available"
    THEN [key EXCEPT !.status = "sold", !.sold_at = t]
    ELSE key

\* a new duration that is added to the current expiry
WithDurationAdded(key, new_duration) ==
    IF new_duration = NULL THEN key
    ELSE [key EXCEPT !.duration_days = new_duration,
                     !.expires_at = IF key.status = "activated" /\ key.activated_at # NULL
                                    THEN PlusDays(key.expires_at, new_duration)
                                    ELSE @]

\* the 'duration_days' branch of update_key
WithDuration(key, new_duration) ==
    IF new_duration = NULL THEN key
    ELSE [key EXCEPT !.duration_days = new_duration,
                     !.expires_at = IF key.status = "activated" /\ key.activated_at # NULL
                                    THEN PlusDays(key.activated_at, new_duration)
                                    ELSE @]

\* PUT /admin/keys/<key_id>
UpdateKey(admin, key_id, new_status, new_duration) ==
    /\ UNCHANGED <<now, watch, gen, reqs, users, nextKeyId>>
    /\ IF AdminRequired(admin) # 200
       THEN /\ Reply(Resp("update_key", admin, key_id, AdminRequired(admin), "auth", NoAct))
            /\ UNCHANGED <<keys, devices>>
       ELSE IF key_id \notin DOMAIN keys
       THEN /\ Reply(Resp("update_key", admin, key_id, 404, "key_not_found", NoAct))
            /\ UNCHANGED <<keys, devices>>
       ELSE /\ devices' = IF new_status = "revoked" /\ keys[key_id].user_id # NULL
                          THEN ExpireTrials(keys[key_id].user_id, now)
                          ELSE devices
            /\ keys' = [keys EXCEPT ![key_id] =
                           WithDuration(WithStatus(@, new_status, now), new_duration)]
            /\ Reply(Resp("update_key", admin, key_id, 200, "", NoAct))

\* DELETE /admin/keys/<key_id>
DeleteKey(admin, key_id) ==
    /\ UNCHANGED <<now, watch, gen, reqs, users, devices, nextKeyId>>
    /\ IF AdminRequired(admin) # 200
       THEN /\ Reply(Resp("delete_key", admin, key_id, AdminRequired(admin), "auth", NoAct))
            /\ UNCHANGED keys
       ELSE IF key_id \notin DOMAIN keys
       THEN /\ Reply(Resp("delete_key", admin, key_id, 404, "key_not_found", NoAct))
            /\ UNCHANGED keys
       ELSE /\ keys' = [k \in DOMAIN keys \ {key_id} |-> keys[k]]
            /\ Reply(Resp("delete_key", admin, key_id, 200, "", NoAct))

\* ------------------------------------------- requests that interleave
\* activate up to its last read (the SELECT of the key, the status checks,
\* the clock): the request either answers at once or holds the row it read
ActivateRead(w, u, code) ==
    /\ reqs[w].pc = "idle"
    /\ UNCHANGED <<db, now, resp, watch, gen>>
    /\ LET req == Pending("activate", u, code, NULL, NoRow, now) IN
       reqs' = [reqs EXCEPT ![w] =
          IF JwtRequiredCustom(u) # 200
          THEN Done(req, JwtRequiredCustom(u), "auth")
          ELSE IF KeysWithCode(code) = {}
          THEN Done(req, 404, "invalid_key")
          ELSE LET k == CHOOSE k \in KeysWithCode(code) : TRUE IN
               IF ActivateCheck(keys[k]) # 200
               THEN Done(req, ActivateCheck(keys[k]), ActivateErr(keys[k]))
               ELSE Pending("activate", u, code, k, keys[k], now)]

\* activate from its assignments to db.session.commit()
ActivateCommit(w) ==
    /\ reqs[w].pc = "commit"
    /\ reqs[w].op = "activate"
    /\ UNCHANGED <<users, devices, nextKeyId, now, resp, watch, gen>>
    /\ LET r == reqs[w] IN
       IF r.key \notin DOMAIN keys
       THEN \* the UPDATE matches no row: StaleDataError, rollback
            /\ reqs' = [reqs EXCEPT ![w] = Done(r, 500, "stale")]
            /\ UNCHANGED keys
       ELSE /\ keys' = [keys EXCEPT ![r.key] =
                           Flush(@, r.snap,
                                 Activated(r.snap, r.user, users[r.user].email, r.t))]
            /\ reqs' = [reqs EXCEPT ![w] = Done(r, 200, "")]

\* update_key up to its last read of the key (the SELECT by id, the clock)
UpdateKeyRead(w, admin, key_id, new_status, new_duration) ==
    /\ reqs[w].pc = "idle"
    /\ UNCHANGED <<db, now, resp, watch, gen>>
    /\ LET req == [Pending("update_key", admin, new_status, key_id, NoRow, now)
                       EXCEPT !.dur = new_duration] IN
       reqs' = [reqs EXCEPT ![w] =
          IF AdminRequired(admin) # 200
          THEN Done(req, AdminRequired(admin), "auth")
          ELSE IF key_id \notin DOMAIN keys
          THEN Done(req, 404, "key_not_found")
          ELSE [req EXCEPT !.snap = keys[key_id]]]

\* update_key from the UPDATE of the devices to db.session.commit()
UpdateKeyCommit(w) ==
    /\ reqs[w].pc = "commit"
    /\ reqs[w].op = "update_key"
    /\ UNCHANGED <<users, nextKeyId, now, resp, watch, gen>>
    /\ LET r == reqs[w]
           new == WithDuration(WithStatus(r.snap, r.arg, r.t), r.dur) IN
       IF r.key \notin DOMAIN keys /\ new # r.snap
       THEN \* the UPDATE matches no row: StaleDataError, rollback
            /\ reqs' = [reqs EXCEPT ![w] = Done(r, 500, "stale")]
            /\ UNCHANGED <<keys, devices>>
       ELSE /\ devices' = IF r.arg = "revoked" /\ r.snap.user_id # NULL
                          THEN ExpireTrials(r.snap.user_id, r.t)
                          ELSE devices
            /\ keys' = [k \in DOMAIN keys |->
                           IF k = r.key THEN Flush(keys[k], r.snap, new) ELSE keys[k]]
            /\ reqs' = [reqs EXCEPT ![w] = Done(r, 200, "")]

\* extend_license up to its last read (the SELECT of the user's activated key,
\* the clock)
ExtendRead(w, admin, target, days) ==
    /\ reqs[w].pc = "idle"
    /\ UNCHANGED <<db, now, resp, watch, gen>>
    /\ LET req == [Pending("extend", admin, "", NULL, NoRow, now) EXCEPT !.dur = days] IN
       IF AdminRequired(admin) # 200
       THEN reqs' = [reqs EXCEPT ![w] = Done(req, AdminRequired(admin), "auth")]
       ELSE IF TargetNotFound(target)
       THEN reqs' = [reqs EXCEPT ![w] = Done(req, 404, "user_not_found")]
       ELSE IF days < 1
       THEN reqs' = [reqs EXCEPT ![w] = Done(req, 400, "days")]
       ELSE IF ActivatedKeysOf(target) = {}
       THEN reqs' = [reqs EXCEPT ![w] = Done(req, 404, "no_activated_key")]
       ELSE \E k \in ActivatedKeysOf(target) :
               reqs' = [reqs EXCEPT ![w] = [req EXCEPT !.key = k, !.snap = keys[k]]]

\* extend_license from its assignments to db.session.commit()
ExtendCommit(w) ==
    /\ reqs[w].pc = "commit"
    /\ reqs[w].op = "extend"
    /\ UNCHANGED <<users, devices, nextKeyId, now, resp, watch, gen>>
    /\ LET r == reqs[w] IN
       IF r.key \notin DOMAIN keys
       THEN \* the UPDATE matches no row: StaleDataError, rollback
            /\ reqs' = [reqs EXCEPT ![w] = Done(r, 500, "stale")]
            /\ UNCHANGED keys
       ELSE /\ keys' = [keys EXCEPT ![r.key] =
                           Flush(@, r.snap, Extended(r.snap, r.dur, r.t))]
            /\ reqs' = [reqs EXCEPT ![w] = Done(r, 200, "")]

\* a devices table without the unique constraint
NoUqDevicePlatform(pair) == FALSE

\* uq_device_platform: an INSERT of a row for pair is rejected
UqDevicePlatform(pair) == pair \in DOMAIN devices

\* whether users.email carries a unique constraint in the database
UqUserEmail == BOOLEAN

\* register up to its last read (the email check, the device check)
RegisterRead(w, email, pair) ==
    /\ reqs[w].pc = "idle"
    /\ UNCHANGED <<db, now, resp, watch, gen>>
    /\ LET req == [Pending("register", NULL, email, NULL, NoRow, now) EXCEPT !.pair = pair] IN
       reqs' = [reqs EXCEPT ![w] =
          IF \E u \in DOMAIN users : users[u].email = email
          THEN Done(req, 409, "email_taken")
          ELSE IF ExistingDevice(pair)
          THEN Done(req, 409, "trial_used")
          ELSE req]

\* register from the INSERT of the user to db.session.commit(): one
\* transaction, rolled back whole when a constraint rejects an INSERT
RegisterCommit(w) ==
    /\ reqs[w].pc = "commit"
    /\ reqs[w].op = "register"
    /\ UNCHANGED <<keys, nextKeyId, now, resp, watch, gen>>
    /\ LET r == reqs[w] IN
       \E uq \in UqUserEmail, uid \in {NextUserId} :
          IF \/ uq /\ \E u \in DOMAIN users : users[u].email = r.arg
             \/ UqDevicePlatform(r.pair)
          THEN \* IntegrityError: neither the user nor the device is kept
               /\ reqs' = [reqs EXCEPT ![w] = Done(r, 500, "integrity")]
               /\ UNCHANGED <<users, devices>>
          ELSE /\ users' = users @@ (uid :> NewUser(r.arg))
               /\ devices' = [p \in DOMAIN devices \cup {r.pair} |->
                                 IF p = r.pair
                                 THEN NewDevice(uid, now, PlusDays(now, TRIAL_DURATION_DAYS))
                                 ELSE devices[p]]
               /\ reqs' = [reqs EXCEPT ![w] = [Done(r, 201, "") EXCEPT !.user = uid]]

\* login up to its last read (the user, the password, the device of the user)
LoginRead(w, u, pwok, pair) ==
    /\ reqs[w].pc = "idle"
    /\ UNCHANGED <<db, now, resp, watch, gen>>
    /\ LET req == [Pending("login", u, "", NULL, NoRow, now) EXCEPT !.pair = pair] IN
       reqs' = [reqs EXCEPT ![w] =
          IF u \notin DOMAIN users \/ ~pwok
          THEN Done(req, 401, "bad_credentials")
          ELSE IF ~users[u].is_active
          THEN Done(req, 403, "disabled")
          ELSE IF pair # NoPair /\ ~(pair \in DOMAIN devices /\ devices[pair].user_id = u)
          THEN req
          ELSE Done(req, 200, "")]

\* login from the INSERT of the device to db.session.commit()
LoginCommit(w) ==
    /\ reqs[w].pc = "commit"
    /\ reqs[w].op = "login"
    /\ UNCHANGED <<users, keys, nextKeyId, now, resp, watch, gen>>
    /\ LET r == reqs[w] IN
       IF UqDevicePlatform(r.pair)
       THEN \* IntegrityError, rollback
            /\ reqs' = [reqs EXCEPT ![w] = Done(r, 500, "integrity")]
            /\ UNCHANGED devices
       ELSE /\ devices' = [p \in DOMAIN devices \cup {r.pair} |->
                              IF p = r.pair THEN NewDevice(r.user, r.t, r.t)
                              ELSE devices[p]]
            /\ reqs' = [reqs EXCEPT ![w] = Done(r, 200, "")]

\* ------------------------------------------------ next-state relations
UserIds == 1..MaxUsers
KeyIds == 1..MaxKeys

KeyRequests ==
    \/ \E u \in UserIds, c \in Codes : Activate(u, c)
    \/ \E a, t \in UserIds, d \in 0..MaxDuration : ExtendLicense(a, t, d)
    \/ \E a, t \in UserIds, k \in KeyIds : AssignKey(a, t, k)
    \/ \E a \in UserIds, c \in 0..MaxKeys, d \in Durations, sold \in BOOLEAN :
           GenerateKeys(a, c, d, sold)
    \/ \E a \in UserIds, k \in KeyIds, st \in StatusInputs, d \in Durations \cup {NULL} :
           UpdateKey(a, k, st, d)
    \/ \E a \in UserIds, k \in KeyIds : DeleteKey(a, k)

Queries ==
    \/ \E u \in UserIds : Me(u)
    \/ \E u \in UserIds : Status(u)

\* key lifecycle: one registered client, every request on keys, the queries
Next ==
    \/ Tick
    \/ KeyRequests
    \/ Queries

Init == OneClientDb /\ Quiet /\ watch = {}
Spec == Init /\ [][Next]_vars

InitRedeem == OneClientDb /\ Quiet /\ watch = {"activate"}
SpecRedeem == InitRedeem /\ [][Next]_vars

InitEval == OneClientDb /\ Quiet /\ watch = {"me", "status"}
SpecEval == InitEval /\ [][Next]_vars

\* key administration: the admin endpoints as the superadmin calls them,
\* redemption by any user
AdminKeyRequests ==
    \/ \E t \in UserIds, d \in 0..MaxDuration : ExtendLicense(SUPERADMIN_ID, t, d)
    \/ \E t \in UserIds, k \in KeyIds : AssignKey(SUPERADMIN_ID, t, k)
    \/ \E c \in 0..MaxKeys, d \in Durations, sold \in BOOLEAN :
           GenerateKeys(SUPERADMIN_ID, c, d, sold)
    \/ \E k \in KeyIds, st \in StatusInputs, d \in Durations \cup {NULL} :
           UpdateKey(SUPERADMIN_ID, k, st, d)
    \/ \E k \in KeyIds : DeleteKey(SUPERADMIN_ID, k)

NextAdmin ==
    \/ Tick
    \/ \E u \in UserIds, c \in Codes : Activate(u, c)
    \/ AdminKeyRequests

InitExtend == OneClientDb /\ Quiet /\ watch = {"extend"}
SpecExtend == InitExtend /\ [][NextAdmin]_vars

\* The database two requests after construction: "a@x" has registered from
\* (d1, android) and the superadmin has logged in from (d1, web), both at time
\* 0; the login recorded a device whose trial had expired at once.
TwoDeviceDb ==
    /\ users = (SUPERADMIN_ID :> [NewUser(RootEmail) EXCEPT !.is_admin = TRUE])
               @@ (2 :> NewUser("a@x"))
    /\ keys = <<>>
    /\ devices = (<<"d1", "android">> :> NewDevice(2, 0, PlusDays(0, TRIAL_DURATION_DAYS)))
                 @@ (<<"d1", "web">> :> NewDevice(SUPERADMIN_ID, 0, 0))
    /\ nextKeyId = 1

InitUpdate == TwoDeviceDb /\ Quiet /\ watch = {"update_key"}
SpecUpdate == InitUpdate /\ [][NextAdmin]_vars

InitAssign == OneClientDb /\ Quiet /\ watch = {"assign"}
SpecAssign == InitAssign /\ [][NextAdmin]_vars

InitGenerate == OneClientDb /\ Quiet /\ watch = {"generate"}
SpecGenerate == InitGenerate /\ [][NextAdmin]_vars

\* accounts and devices: registration, login, account updates, the queries
AccountRequests ==
    \/ \E e \in Emails, p \in DevicePairs : Register(e, p)
    \/ \E u \in UserIds, ok \in BOOLEAN, p \in LoginPairs : Login(u, ok, p)
    \/ \E a, t \in UserIds, f, g \in FlagInputs : UpdateUser(a, t, f, g, "absent")

NextAccounts ==
    \/ Tick
    \/ AccountRequests
    \/ Queries

InitAccounts == EmptyDb /\ Quiet /\ watch = {"register", "login"}
SpecAccounts == InitAccounts /\ [][NextAccounts]_vars
\* two workers race on the one key of the database
OneKeyDb ==
    /\ users = (SUPERADMIN_ID :> [NewUser(RootEmail) EXCEPT !.is_admin = TRUE])
               @@ (2 :> NewUser("a@x"))
    /\ devices = (<<"d1", "android">> :> NewDevice(2, 0, PlusDays(0, TRIAL_DURATION_DAYS)))
    /\ \E d \in Durations, sold \in BOOLEAN :
          keys = (1 :> NewKey("AAAA", d, IF sold THEN "sold" ELSE "available",
                              IF sold THEN 0 ELSE NULL))
    /\ nextKeyId = 2

NextRace ==
    \/ Tick
    \/ \E w \in Workers, u \in UserIds, c \in Codes : ActivateRead(w, u, c)
    \/ \E w \in Workers : ActivateCommit(w)
    \/ \E w \in Workers, a \in UserIds, k \in KeyIds,
          st \in StatusInputs, d \in Durations \cup {NULL} : UpdateKeyRead(w, a, k, st, d)
    \/ \E w \in Workers : UpdateKeyCommit(w)

InitRace == OneKeyDb /\ Quiet /\ watch = {}
SpecRace == InitRace /\ [][NextRace]_vars

\* two workers extend the key "a@x" has redeemed at time 0
RedeemedKeyDb ==
    /\ users = (SUPERADMIN_ID :> [NewUser(RootEmail) EXCEPT !.is_admin = TRUE])
               @@ (2 :> NewUser("a@x"))
    /\ devices = (<<"d1", "android">> :> NewDevice(2, 0, PlusDays(0, TRIAL_DURATION_DAYS)))
    /\ \E d \in 1..MaxDuration :
          keys = (1 :> Activated(NewKey("AAAA", d, "available", NULL), 2, "a@x", 0))
    /\ nextKeyId = 2

NextExtendRace ==
    \/ Tick
    \/ \E w \in Workers, a, t \in UserIds, d \in 0..MaxDuration : ExtendRead(w, a, t, d)
    \/ \E w \in Workers : ExtendCommit(w)

InitExtendRace == RedeemedKeyDb /\ Quiet /\ watch = {}
SpecExtendRace == InitExtendRace /\ [][NextExtendRace]_vars

\* accounts and devices with the device pre-flight check
NextTrialGate ==
    \/ NextAccounts
    \/ \E p \in DevicePairs : CheckDevice(p)

InitTrialGate == EmptyDb /\ Quiet /\ watch = {"register", "check_device"}
SpecTrialGate == InitTrialGate /\ [][NextTrialGate]_vars

\* the endpoints behind admin_required
AdminOps == {"generate", "extend", "assign", "update_key", "delete_key"}

\* the key endpoints as any account calls them, one-day durations, while the
\* superadmin disables, enables, promotes and demotes accounts; the clock
\* stands still, the decorators do not read it
NextGuarded ==
    \/ \E t \in UserIds, f, g \in FlagInputs : UpdateUser(SUPERADMIN_ID, t, f, g, "absent")
    \/ \E u \in UserIds, c \in Codes : Activate(u, c)
    \/ \E a, t \in UserIds : ExtendLicense(a, t, 1)
    \/ \E a, t \in UserIds, k \in KeyIds : AssignKey(a, t, k)
    \/ \E a \in UserIds, sold \in BOOLEAN : GenerateKeys(a, 1, 1, sold)
    \/ \E a \in UserIds, k \in KeyIds, st \in StatusInputs, d \in {NULL, 1} :
           UpdateKey(a, k, st, d)
    \/ \E a \in UserIds, k \in KeyIds : DeleteKey(a, k)

InitGuarded == OneClientDb /\ Quiet /\ watch = AdminOps \cup {"activate"}
SpecGuarded == InitGuarded /\ [][NextGuarded]_vars

\* the endpoints that take a target user, as any account calls them on any
\* target at one instant, with keys generated and redeemed in between
NextTargets ==
    \/ \E a, t \in UserIds, f, g \in FlagInputs, pw \in PasswordInputs :
           UpdateUser(a, t, f, g, pw)
    \/ \E a, t \in UserIds : ExtendLicense(a, t, 1)
    \/ \E a, t \in UserIds, k \in KeyIds : AssignKey(a, t, k)
    \/ \E u \in UserIds, c \in Codes : Activate(u, c)
    \/ \E sold \in BOOLEAN : GenerateKeys(SUPERADMIN_ID, 1, 1, sold)

InitTargets == OneClientDb /\ Quiet /\ watch = {"update_user", "extend", "assign"}
SpecTargets == InitTargets /\ [][NextTargets]_vars

\* the entitlement of an account as its holder and an admin see it: me,
\* login and status by every account, get_user by every account on every
\* target, while the superadmin promotes, demotes, disables and enables the
\* other account and keys are generated and redeemed
NextViews ==
    \/ Tick
    \/ Queries
    \/ \E u \in UserIds : Login(u, TRUE, NoPair)
    \/ \E a, t \in UserIds : GetUser(a, t)
    \/ \E t \in UserIds, f, g \in FlagInputs : UpdateUser(SUPERADMIN_ID, t, f, g, "absent")
    \/ \E sold \in BOOLEAN : GenerateKeys(SUPERADMIN_ID, 1, 1, sold)
    \/ \E u \in UserIds, c \in Codes : Activate(u, c)

InitViews == OneClientDb /\ Quiet /\ watch = {"me", "login", "status", "get_user"}
SpecViews == InitViews /\ [][NextViews]_vars

\* two workers serve one register or login request each
NextAccountsRace ==
    \/ Tick
    \/ \E w \in Workers, e \in Emails, p \in DevicePairs : RegisterRead(w, e, p)
    \/ \E w \in Workers : RegisterCommit(w)
    \/ \E w \in Workers, u \in UserIds, ok \in BOOLEAN, p \in LoginPairs :
           LoginRead(w, u, ok, p)
    \/ \E w \in Workers : LoginCommit(w)

InitAccountsRace == (EmptyDb \/ OneClientDb) /\ Quiet /\ watch = {}
SpecAccountsRace == InitAccountsRace /\ [][NextAccountsRace]_vars

\* one secrets.choice(CHARS) of the generator; the runs explored change symbol
\* at most MaxChanges times
Choice(i) ==
    /\ gen.code = <<>>
    /\ Len(gen.picks) < GROUPS * GROUP_LEN
    /\ Changes(Append(gen.picks, CHARS[i])) <= MaxChanges
    /\ gen' = [gen EXCEPT !.picks = Append(@, CHARS[i])]
    /\ UNCHANGED <<db, now, resp, watch, reqs>>

\* generate_activation_key returns the joined groups
Return ==
    /\ gen.code = <<>>
    /\ Len(gen.picks) = GROUPS * GROUP_LEN
    /\ gen' = [gen EXCEPT !.code = GenerateActivationKey(gen.picks)]
    /\ UNCHANGED <<db, now, resp, watch, reqs>>

NextKeyGen == (\E i \in 1..Len(CHARS) : Choice(i)) \/ Return

InitKeyGen == EmptyDb /\ Quiet /\ watch = {}
SpecKeyGen == InitKeyGen /\ [][NextKeyGen]_vars

\* every endpoint that writes a device or a key: registration and login from
\* any pair, redemption by any user, the admin endpoints as the superadmin
\* calls them with one-day durations
DeviceKeyRequests ==
    \/ \E e \in Emails, p \in DevicePairs : Register(e, p)
    \/ \E u \in UserIds, ok \in BOOLEAN, p \in LoginPairs : Login(u, ok, p)
    \/ \E u \in UserIds, c \in Codes : Activate(u, c)
    \/ \E t \in UserIds : ExtendLicense(SUPERADMIN_ID, t, 1)
    \/ \E t \in UserIds, k \in KeyIds : AssignKey(SUPERADMIN_ID, t, k)
    \/ \E sold \in BOOLEAN : GenerateKeys(SUPERADMIN_ID, 1, 1, sold)
    \/ \E k \in KeyIds, st \in StatusInputs, d \in {NULL, 1} :
           UpdateKey(SUPERADMIN_ID, k, st, d)
    \/ \E k \in KeyIds : DeleteKey(SUPERADMIN_ID, k)

NextDevices ==
    \/ Tick
    \/ DeviceKeyRequests

InitDevices == EmptyDb /\ Quiet /\ watch = {}
SpecDevices == InitDevices /\ [][NextDevices]_vars
\* ================================================================ claims
Unexpired(k) ==
    /\ keys[k].status = "activated"
    /\ keys[k].expires_at # NULL
    /\ keys[k].expires_at > now

Evaluated == resp.op \in {"me", "status"} /\ resp.code = 200

\* C1: two redeem requests for the same code of an available or sold key,
\* interleaved in any way: exactly one reports success, the other Conflict,
\* and the key is bound to the one that succeeded.
C1_ExactlyOneRedeemSucceeds ==
    \A w1, w2 \in Workers :
        ( /\ w1 # w2
          /\ reqs[w1].pc = "done" /\ reqs[w1].op = "activate"
          /\ reqs[w2].pc = "done" /\ reqs[w2].op = "activate"
          /\ reqs[w1].arg = reqs[w2].arg
          /\ KeysWithCode(reqs[w1].arg) # {} )
        => \/ /\ reqs[w1].code = 200 /\ reqs[w2].code = 409
              /\ \A k \in KeysWithCode(reqs[w1].arg) :
                    /\ keys[k].user_id = reqs[w1].user
                    /\ keys[k].activated_email = users[reqs[w1].user].email
           \/ /\ reqs[w2].code = 200 /\ reqs[w1].code = 409
              /\ \A k \in KeysWithCode(reqs[w1].arg) :
                    /\ keys[k].user_id = reqs[w2].user
                    /\ keys[k].activated_email = users[reqs[w2].user].email

\* C2: at every instant each user has at most one key that is activated and
\* not yet expired.
C2_AtMostOneActiveKeyPerUser ==
    \A u \in DOMAIN users :
        Cardinality({k \in DOMAIN keys : keys[k].user_id = u /\ Unexpired(k)}) <= 1

\* C3: every activated key has its four redemption fields set and expires
\* strictly after it was activated.
C3_ActivatedKeyHasWindow ==
    \A k \in DOMAIN keys :
        keys[k].status = "activated" =>
            /\ keys[k].user_id # NULL
            /\ keys[k].activated_email # NoEmail
            /\ keys[k].activated_at # NULL
            /\ keys[k].expires_at # NULL
            /\ keys[k].expires_at > keys[k].activated_at

\* C4: every key that is not activated (available, sold or revoked) has its
\* four redemption fields null.
C4_UnredeemedKeyHasNoWindow ==
    \A k \in DOMAIN keys :
        keys[k].status # "activated" =>
            /\ keys[k].user_id = NULL
            /\ keys[k].activated_email = NoEmail
            /\ keys[k].activated_at = NULL
            /\ keys[k].expires_at = NULL

\* C5: the answer to a redeem request of an authenticated caller for an
\* unknown code, or for a key whose status is neither available nor sold, is a
\* failure (not found for an unknown code, conflict for an activated or
\* revoked key, whoever calls), and the request changes no key, device or user.
C5_FailedRedeemChangesNothing ==
    [][\A u \in UserIds, c \in Codes :
          ( /\ resp'.op = "activate" /\ resp'.caller = u
            /\ JwtRequiredCustom(u) = 200
            /\ \/ KeysWithCode(c) = {}
               \/ \E k \in KeysWithCode(c) : keys[k].status \notin {"available", "sold"}
            /\ Activate(u, c) )
          => /\ keys' = keys /\ devices' = devices /\ users' = users
             /\ resp'.code = IF KeysWithCode(c) = {} THEN 404 ELSE 409
      ]_vars

\* the holder of an activated key redeemed it again and got the conflict
C5_Witness ==
    /\ resp.op = "activate" /\ resp.code = 409
    /\ resp.target \in DOMAIN keys
    /\ keys[resp.target].status = "activated"
    /\ keys[resp.target].user_id = resp.caller

\* C6: a redeem of an available or sold key by user u at time now sets, in one
\* step, user_id = u, activated_email = u's email, activated_at = now,
\* expires_at = now + duration_days days and status = activated, reports
\* success, and changes no other key, no device and no user.
C6_RedeemEffect ==
    [][\A u \in UserIds, c \in Codes :
          ( /\ resp'.op = "activate" /\ resp'.caller = u
            /\ JwtRequiredCustom(u) = 200
            /\ \E k \in KeysWithCode(c) : keys[k].status \in {"available", "sold"}
            /\ Activate(u, c) )
          => /\ resp'.code = 200
             /\ \A k \in KeysWithCode(c) :
                   keys' = [keys EXCEPT ![k] =
                              [key_code |-> keys[k].key_code,
                               duration_days |-> keys[k].duration_days,
                               status |-> "activated",
                               user_id |-> u,
                               activated_email |-> users[u].email,
                               activated_at |-> now,
                               expires_at |-> now + keys[k].duration_days * DayLen,
                               sold_at |-> keys[k].sold_at]]
             /\ devices' = devices /\ users' = users
      ]_vars

\* a sold key was redeemed while another key exists
C6_Witness ==
    /\ resp.op = "activate" /\ resp.code = 200
    /\ Cardinality(DOMAIN keys) = 2
    /\ resp.target \in DOMAIN keys
    /\ keys[resp.target].status = "activated"
    /\ keys[resp.target].sold_at # NULL
    /\ keys[resp.target].user_id = resp.caller

\* C7: a registration for a (device_id, platform) pair that already has a
\* Device row fails with conflict whatever the email, creates no user and no
\* device, and leaves the existing device row unchanged.
C7_SecondTrialRejected ==
    [][\A e \in Emails, p \in DevicePairs :
          (p \in DOMAIN devices /\ Register(e, p))
          => /\ resp'.op = "register" /\ resp'.code = 409
             /\ users' = users /\ devices' = devices /\ keys' = keys
      ]_vars

\* an email not yet registered was refused on a device that had been used
C7_Witness ==
    /\ resp.op = "register" /\ resp.code = 409 /\ resp.err = "trial_used"
    /\ devices # <<>>

\* C8: for an admin the evaluation returns active in every key and device
\* state, in the evaluator of register / login / me and in GET
\* /activation/status.
C8_AdminAlwaysActive ==
    (Evaluated /\ users[resp.caller].is_admin) => resp.act.status = "active"

ExtendAnswered(a, t, n) ==
    /\ resp'.op = "extend" /\ resp'.caller = a /\ resp'.target = t
    /\ AdminRequired(a) = 200
    /\ t # SUPERADMIN_ID /\ t \in DOMAIN users
    /\ ExtendLicense(a, t, n)

\* C11: extend by N >= 1 days on a user whose keys with status activated all
\* have expires_at > now succeeds and changes exactly one of those keys:
\* expires_at moves forward by N days and duration_days grows by N, while
\* activated_at, status, user_id and activated_email (and every other key)
\* keep their values.
C11_ExtendLiveKey ==
    [][\A a, t \in UserIds, n \in 1..MaxDuration :
          ( /\ ExtendAnswered(a, t, n)
            /\ \E k \in DOMAIN keys : keys[k].user_id = t /\ keys[k].status = "activated"
            /\ \A k \in DOMAIN keys :
                  (keys[k].user_id = t /\ keys[k].status = "activated")
                      => keys[k].expires_at > now )
          => /\ resp'.code = 200
             /\ \E k \in DOMAIN keys :
                   /\ keys[k].user_id = t /\ keys[k].status = "activated"
                   /\ keys' = [keys EXCEPT ![k] =
                                 [key_code |-> keys[k].key_code,
                                  duration_days |-> keys[k].duration_days + n,
                                  status |-> "activated",
                                  user_id |-> t,
                                  activated_email |-> keys[k].activated_email,
                                  activated_at |-> keys[k].activated_at,
                                  expires_at |-> keys[k].expires_at + n * DayLen,
                                  sold_at |-> keys[k].sold_at]]
      ]_vars

\* a key activated earlier was extended: its window is longer, its start kept
C11_Witness ==
    /\ resp.op = "extend" /\ resp.code = 200
    /\ \E k \in DOMAIN keys :
          /\ keys[k].user_id = resp.target /\ keys[k].status = "activated"
          /\ keys[k].activated_at < now
          /\ keys[k].duration_days = 2
          /\ keys[k].expires_at = keys[k].activated_at + 2 * DayLen

\* C12: extend by N days on a user whose keys with status activated have all
\* lapsed (expires_at not after now) succeeds and restarts one of them:
\* activated_at = now, expires_at = now + N days, duration_days = N, status
\* still activated; nothing else changes.
C12_ExtendLapsedKey ==
    [][\A a, t \in UserIds, n \in 1..MaxDuration :
          ( /\ ExtendAnswered(a, t, n)
            /\ \E k \in DOMAIN keys : keys[k].user_id = t /\ keys[k].status = "activated"
            /\ \A k \in DOMAIN keys :
                  (keys[k].user_id = t /\ keys[k].status = "activated")
                      => keys[k].expires_at <= now )
          => /\ resp'.code = 200
             /\ \E k \in DOMAIN keys :
                   /\ keys[k].user_id = t /\ keys[k].status = "activated"
                   /\ keys' = [keys EXCEPT ![k] =
                                 [key_code |-> keys[k].key_code,
                                  duration_days |-> n,
                                  status |-> "activated",
                                  user_id |-> t,
                                  activated_email |-> keys[k].activated_email,
                                  activated_at |-> now,
                                  expires_at |-> now + n * DayLen,
                                  sold_at |-> keys[k].sold_at]]
      ]_vars

\* a key that lapsed after time had passed was restarted at a later instant
C12_Witness ==
    /\ resp.op = "extend" /\ resp.code = 200
    /\ now > 0
    /\ \E k \in DOMAIN keys :
          /\ keys[k].user_id = resp.target /\ keys[k].status = "activated"
          /\ keys[k].activated_at = now
          /\ keys[k].expires_at > now

\* C13: extend (days >= 1) on a user who holds no key with status activated
\* answers 404 "no activated key" and changes no key; on a user who holds a key
\* with status activated, lapsed or not, it never answers that error.
C13_ExtendWithoutKey ==
    [][\A a, t \in UserIds, n \in 1..MaxDuration :
          ExtendAnswered(a, t, n)
          => IF \E k \in DOMAIN keys : keys[k].user_id = t /\ keys[k].status = "activated"
             THEN resp'.code = 200 /\ resp'.err # "no_activated_key"
             ELSE /\ resp'.code = 404 /\ resp'.err = "no_activated_key"
                  /\ keys' = keys /\ devices' = devices
      ]_vars

\* the error was given to a user whose only key had been revoked
C13_Witness ==
    /\ resp.op = "extend" /\ resp.code = 404 /\ resp.err = "no_activated_key"
    /\ \E k \in DOMAIN keys : keys[k].status = "revoked"
    /\ \A k \in DOMAIN keys : keys[k].status # "activated"
\* an update_key request that passes admin_required and addresses an existing
\* key is being answered
UpdateKeyAnswered(a, k, st, d) ==
    /\ resp'.op = "update_key" /\ resp'.caller = a /\ resp'.target = k
    /\ AdminRequired(a) = 200
    /\ k \in DOMAIN keys
    /\ UpdateKey(a, k, st, d)

\* C14: a revoke of key k at time now (update with status = revoked) leaves k
\* revoked with user_id, activated_email, activated_at and expires_at null,
\* sets trial_expires_at = now on each device of the user the key had whose
\* trial_expires_at was after now, and changes no other device, no other field
\* of a device and no other key.
C14_RevokeEffect ==
    [][\A a \in UserIds, k \in KeyIds, d \in Durations \cup {NULL} :
          UpdateKeyAnswered(a, k, "revoked", d)
          => /\ resp'.code = 200
             /\ DOMAIN keys' = DOMAIN keys
             /\ keys'[k].status = "revoked"
             /\ keys'[k].user_id = NULL
             /\ keys'[k].activated_email = NoEmail
             /\ keys'[k].activated_at = NULL
             /\ keys'[k].expires_at = NULL
             /\ keys'[k].key_code = keys[k].key_code
             /\ \A j \in DOMAIN keys : j # k => keys'[j] = keys[j]
             /\ DOMAIN devices' = DOMAIN devices
             /\ \A p \in DOMAIN devices :
                   devices'[p] =
                      IF /\ keys[k].user_id # NULL
                         /\ devices[p].user_id = keys[k].user_id
                         /\ devices[p].trial_expires_at > now
                      THEN [user_id |-> devices[p].user_id,
                            trial_started_at |-> devices[p].trial_started_at,
                            trial_expires_at |-> now]
                      ELSE devices[p]
      ]_vars

\* a redeemed key was revoked at this instant, after the trial had started:
\* its holder's trial was cut to now, a lapsed device of another user is there
C14_Witness ==
    /\ resp.op = "update_key" /\ resp.code = 200
    /\ resp.target \in DOMAIN keys
    /\ keys[resp.target].status = "revoked"
    /\ \E p \in DOMAIN devices :
          /\ devices[p].trial_expires_at = now
          /\ devices[p].trial_started_at < now
    /\ \E p \in DOMAIN devices : devices[p].trial_expires_at < now

\* C15: right after the revoke of a key held by a user u who is not an admin,
\* the evaluation for u is expired, from whatever state the revoke is issued.
C15_RevokedUserIsExpired ==
    [][\A a \in UserIds, k \in KeyIds, d \in Durations \cup {NULL} :
          ( /\ AdminRequired(a) = 200
            /\ k \in DOMAIN keys
            /\ keys[k].status = "activated"
            /\ keys[k].user_id \in DOMAIN users
            /\ ~users[keys[k].user_id].is_admin
            /\ UpdateKey(a, k, "revoked", d) )
          => \E u \in {keys[k].user_id} :
                /\ GetActivationStatus(u, now)' = {ExpiredResult}
                /\ StatusResult(u, now)' = {ExpiredResult}
      ]_vars

\* C16: an update that carries duration_days = d and no status sets
\* duration_days = d; on a key with status activated it sets expires_at =
\* activated_at + d days, whatever expires_at was, and keeps activated_at,
\* status and owner; on a key that is not activated expires_at stays null.
\* No other key and no device changes.
C16_UpdateDuration ==
    [][\A a \in UserIds, k \in KeyIds, d \in Durations :
          UpdateKeyAnswered(a, k, "absent", d)
          => /\ resp'.code = 200
             /\ DOMAIN keys' = DOMAIN keys
             /\ keys'[k].duration_days = d
             /\ IF keys[k].status = "activated"
                THEN /\ keys'[k].expires_at = keys[k].activated_at + d * DayLen
                     /\ keys'[k].activated_at = keys[k].activated_at
                     /\ keys'[k].status = "activated"
                     /\ keys'[k].user_id = keys[k].user_id
                     /\ keys'[k].activated_email = keys[k].activated_email
                ELSE /\ keys'[k].expires_at = NULL
                     /\ keys'[k].activated_at = NULL
                     /\ keys'[k].status # "activated"
             /\ \A j \in DOMAIN keys : j # k => keys'[j] = keys[j]
             /\ devices' = devices
      ]_vars

\* an update was answered for an activated key that has lapsed and whose
\* window is its activation time plus its duration
C16_Witness ==
    /\ resp.op = "update_key" /\ resp.code = 200
    /\ resp.target \in DOMAIN keys
    /\ keys[resp.target].status = "activated"
    /\ keys[resp.target].expires_at
          = keys[resp.target].activated_at + keys[resp.target].duration_days * DayLen
    /\ keys[resp.target].expires_at < now
\* C17: an admin assign of key k to user t (not the superadmin) at time now,
\* when k is available or sold, answers 200 and sets on k exactly what a
\* redeem by t sets (user_id = t, activated_email = t's email, activated_at =
\* now, expires_at = now + duration_days days, status = activated), whether or
\* not t already holds an unexpired activated key; when k is activated or
\* revoked it answers an error and changes no key.  No device changes.
C17_AssignEffect ==
    [][\A a, t \in UserIds, k \in KeyIds :
          ( /\ resp'.op = "assign" /\ resp'.caller = a /\ resp'.target = t
            /\ AdminRequired(a) = 200
            /\ t # SUPERADMIN_ID /\ t \in DOMAIN users
            /\ k \in DOMAIN keys
            /\ AssignKey(a, t, k) )
          => /\ devices' = devices /\ users' = users
             /\ IF keys[k].status \in {"available", "sold"}
                THEN /\ resp'.code = 200
                     /\ keys' = [keys EXCEPT ![k] =
                                   [key_code |-> keys[k].key_code,
                                    duration_days |-> keys[k].duration_days,
                                    status |-> "activated",
                                    user_id |-> t,
                                    activated_email |-> users[t].email,
                                    activated_at |-> now,
                                    expires_at |-> now + keys[k].duration_days * DayLen,
                                    sold_at |-> keys[k].sold_at]]
                ELSE /\ resp'.code = 400
                     /\ keys' = keys
      ]_vars

\* a key was assigned to a user who holds another unexpired activated key
C17_Witness ==
    /\ resp.op = "assign" /\ resp.code = 200
    /\ Cardinality({k \in DOMAIN keys : /\ keys[k].user_id = resp.target
                                        /\ keys[k].status = "activated"
                                        /\ keys[k].expires_at > now}) = 2
    /\ \E k \in DOMAIN keys : keys[k].user_id = resp.target /\ keys[k].activated_at < now
    /\ \E k \in DOMAIN keys : keys[k].user_id = resp.target /\ keys[k].activated_at = now

Ambiguous == {"0", "O", "1", "I", "L"}

\* C20: every key the generator returns is 19 characters long, has '-' at
\* positions 5, 10 and 15 and nowhere else (four groups of four), and
\* contains none of the characters 0, O, 1, I, L.
C20_KeyFormat ==
    gen.code # <<>> =>
        /\ Len(gen.code) = 19
        /\ \A p \in 1..Len(gen.code) :
               /\ (gen.code[p] = "-") <=> (p \in {5, 10, 15})
               /\ gen.code[p] \notin Ambiguous

\* a returned key whose groups do not all repeat one symbol
C20_Witness ==
    /\ gen.code # <<>>
    /\ gen.code[1] # gen.code[19]


\* the symbols of the generator's alphabet
Alphabet == {CHARS[i] : i \in DOMAIN CHARS}

\* C21 (as the source has it): the alphabet the generator draws from has
\* exactly 31 distinct symbols, no symbol is listed twice, and every symbol
\* drawn is one of them; a code is 16 independent draws, so there are 31^16
\* possible codes.
C21_AlphabetSize ==
    /\ Cardinality(Alphabet) = 31
    /\ Len(CHARS) = 31
    /\ \A p \in DOMAIN gen.picks : gen.picks[p] \in Alphabet

\* C21 (as stated): every key is drawn from an alphabet of exactly 32 distinct
\* symbols.
C21_Alphabet32 == gen.picks # <<>> => Cardinality(Alphabet) = 32

\* a returned key that starts with the first symbol of the alphabet and ends
\* with the last
C21_Witness ==
    /\ gen.code # <<>>
    /\ gen.code[1] = CHARS[1]
    /\ gen.code[19] = CHARS[Len(CHARS)]


\* some key of user u becomes revoked in this step
RevokedFor(u) ==
    \E k \in DOMAIN keys :
        /\ keys[k].user_id = u
        /\ keys[k].status # "revoked"
        /\ k \in DOMAIN keys' /\ keys'[k].status = "revoked"

\* C22: a device row, once created, stays; no step changes its
\* trial_started_at; a step changes its trial_expires_at only when it revokes
\* a key of the device's user, and then to the time of the revoke, which is
\* earlier than the value it replaces.
C22_TrialWindowFrame ==
    [][\A p \in DOMAIN devices :
          /\ p \in DOMAIN devices'
          /\ devices'[p].trial_started_at = devices[p].trial_started_at
          /\ \/ devices'[p].trial_expires_at = devices[p].trial_expires_at
             \/ /\ RevokedFor(devices[p].user_id)
                /\ devices'[p].trial_expires_at = now
                /\ devices'[p].trial_expires_at < devices[p].trial_expires_at]_vars

\* a revoke has cut a running trial short while a device recorded by a login
\* kept the window it had
C22_Witness ==
    /\ \E k \in DOMAIN keys : keys[k].status = "revoked"
    /\ \E p \in DOMAIN devices :
          /\ devices[p].trial_started_at < devices[p].trial_expires_at
          /\ devices[p].trial_expires_at < PlusDays(devices[p].trial_started_at, TRIAL_DURATION_DAYS)
    /\ \E p \in DOMAIN devices :
          /\ devices[p].trial_started_at = devices[p].trial_expires_at
          /\ devices[p].trial_expires_at < now


\* C23: a login with the right password by an active user u from a pair that
\* holds no device row of u records a row of u for the pair whose
\* trial_expires_at is the login time; and if u is not an admin and was
\* expired before the login, u is expired at the login time and at every
\* later time in the database the login leaves.
C23_LoginGrantsNoTrial ==
    [][\A u \in UserIds, p \in DevicePairs :
          ( /\ resp'.op = "login" /\ resp'.caller = u
            /\ u \in DOMAIN users /\ users[u].is_active
            /\ ~(p \in DOMAIN devices /\ devices[p].user_id = u)
            /\ Login(u, TRUE, p) )
          => /\ p \in DOMAIN devices'
             /\ devices'[p].user_id = u
             /\ devices'[p].trial_expires_at = now
             /\ (~users[u].is_admin /\ KeyOrTrial(u, now) = {ExpiredResult})
                => \A t \in now..MaxTime :
                      GetActivationStatus(u, t)' = {ExpiredResult}]_vars


Statuses == {"available", "sold", "activated", "revoked"}

AllowedTransitions ==
    {<<"available", "sold">>, <<"available", "activated">>, <<"sold", "activated">>}
    \cup {<<st, "revoked">> : st \in Statuses}

\* C24: every stored status is one of available, sold, activated, revoked, and
\* a step that changes the status of a key takes it along available -> sold,
\* available -> activated, sold -> activated or to revoked: an activated key
\* does not go back to available or sold and a revoked key keeps its status.
C24_StatusTransitions ==
    [][\A k \in DOMAIN keys :
          /\ keys[k].status \in Statuses
          /\ k \in DOMAIN keys' =>
                \/ keys'[k].status = keys[k].status
                \/ <<keys[k].status, keys'[k].status>> \in AllowedTransitions]_vars


\* C25: a redeem of a key's code and a revoke of the same key, both answered,
\* the revoke with success, interleaved in any way: the redeem reports success
\* or Conflict, the key ends revoked with its four redemption fields null
\* (as after either serial order), and when the redeem succeeded the revoke
\* has expired the redeemer's trials.
C25_RedeemRevokeAtomic ==
    \A w1, w2 \in Workers :
        ( /\ w1 # w2
          /\ reqs[w1].pc = "done" /\ reqs[w1].op = "activate"
          /\ reqs[w2].pc = "done" /\ reqs[w2].op = "update_key"
          /\ reqs[w2].arg = "revoked" /\ reqs[w2].code = 200
          /\ KeysWithCode(reqs[w1].arg) = {reqs[w2].key}
          /\ JwtRequiredCustom(reqs[w1].user) = 200 )
        => /\ reqs[w1].code \in {200, 409}
           /\ keys[reqs[w2].key].status = "revoked"
           /\ keys[reqs[w2].key].user_id = NULL
           /\ keys[reqs[w2].key].activated_email = NoEmail
           /\ keys[reqs[w2].key].activated_at = NULL
           /\ keys[reqs[w2].key].expires_at = NULL
           /\ reqs[w1].code = 200 =>
                 \A p \in DOMAIN devices :
                     devices[p].user_id = reqs[w1].user
                         => devices[p].trial_expires_at <= reqs[w2].t


\* C26: two extend requests for the same key, both answered with success,
\* each having read the key unexpired, interleaved in any way: expires_at has
\* moved forward by the sum of the two numbers of days from the value the
\* first of them read, and duration_days has grown by the same sum.
C26_NoLostExtend ==
    \A w1, w2 \in Workers :
        ( /\ w1 # w2
          /\ reqs[w1].pc = "done" /\ reqs[w1].op = "extend" /\ reqs[w1].code = 200
          /\ reqs[w2].pc = "done" /\ reqs[w2].op = "extend" /\ reqs[w2].code = 200
          /\ reqs[w1].key = reqs[w2].key
          /\ reqs[w1].snap.expires_at > reqs[w1].t
          /\ reqs[w2].snap.expires_at > reqs[w2].t )
        => /\ keys[reqs[w1].key].expires_at =
                 PlusDays(Min(reqs[w1].snap.expires_at, reqs[w2].snap.expires_at),
                          reqs[w1].dur + reqs[w2].dur)
           /\ keys[reqs[w1].key].duration_days =
                 Min(reqs[w1].snap.duration_days, reqs[w2].snap.duration_days)
                 + reqs[w1].dur + reqs[w2].dur


\* the workers whose registration has succeeded
Registered(rs) ==
    {w \in Workers : rs[w].pc = "done" /\ rs[w].op = "register" /\ rs[w].code = 201}

\* C27: register and login requests interleaved in any way: a device row
\* stays and keeps its user_id, who is a user; two registrations for the same
\* pair do not both succeed, nor does one for a pair that held a row before;
\* and every step adds exactly as many User rows as registrations succeed in
\* it, so a registration that fails leaves no User row.
C27_DeviceRaces ==
    [][/\ \A p \in DOMAIN devices :
             /\ p \in DOMAIN devices'
             /\ devices'[p].user_id = devices[p].user_id
       /\ \A p \in DOMAIN devices' : devices'[p].user_id \in DOMAIN users'
       /\ \A w1, w2 \in Registered(reqs') :
             w1 # w2 => reqs'[w1].pair # reqs'[w2].pair
       /\ \A w \in Registered(reqs') \ Registered(reqs) : reqs[w].pair \notin DOMAIN devices
       /\ Cardinality(DOMAIN users') - Cardinality(DOMAIN users)
             = Cardinality(Registered(reqs') \ Registered(reqs))]_vars

\* two registrations for one pair have both passed the device check; one has
\* succeeded and the other has lost the race at its commit
C27_Witness ==
    \E w1, w2 \in Workers :
        /\ reqs[w1].op = "register" /\ reqs[w1].pc = "done" /\ reqs[w1].code = 201
        /\ reqs[w2].op = "register" /\ reqs[w2].pc = "done" /\ reqs[w2].code = 500
        /\ reqs[w1].pair = reqs[w2].pair
        /\ reqs[w1].arg # reqs[w2].arg
        /\ \A u \in DOMAIN users : users[u].email # reqs[w2].arg


\* the pair holds a row recorded by a login: its trial window is empty
ObservedAtLogin(p) ==
    /\ p \in DOMAIN devices
    /\ devices[p].trial_expires_at = devices[p].trial_started_at

UniqueCodes(ks) ==
    \A k1, k2 \in DOMAIN ks : k1 # k2 => ks[k1].key_code # ks[k2].key_code

\* C29: after every step no two persisted keys share a key_code, and a
\* generate request by an admin, while enough unused codes remain for its
\* batch, does not fail on a collision: it answers 201.
C29_GenerateAvoidsCollisions ==
    [][/\ UniqueCodes(keys')
       /\ \A a \in UserIds, c \in 0..MaxKeys, d \in Durations, sold \in BOOLEAN :
             ( /\ resp'.op = "generate" /\ resp'.caller = a
               /\ AdminRequired(a) = 200
               /\ Cardinality(DOMAIN keys) + BatchSize(c) <= Cardinality(Codes)
               /\ GenerateKeys(a, c, d, sold) )
             => resp'.code = 201]_vars


\* C30: a request to generate, extend, assign-key, update_key or delete_key
\* by an account that is not an admin or is disabled is answered 403 and
\* changes no user, key or device; so is a redeem by a disabled account.
C30_ForbiddenChangesNothing ==
    [][\A a \in DOMAIN users :
          /\ ( /\ resp'.op \in AdminOps /\ resp'.caller = a
               /\ (~users[a].is_admin \/ ~users[a].is_active) )
             => (resp'.code = 403 /\ UNCHANGED db)
          /\ ( /\ resp'.op = "activate" /\ resp'.caller = a
               /\ ~users[a].is_active )
             => (resp'.code = 403 /\ UNCHANGED db)]_vars

\* a disabled admin has just been refused a key operation while a key exists
C30_Witness ==
    /\ resp.op \in AdminOps /\ resp.code = 403
    /\ resp.caller \in DOMAIN users
    /\ users[resp.caller].is_admin /\ ~users[resp.caller].is_active
    /\ DOMAIN keys # {}


\* C31: no step changes the superadmin's row; an update_user, extend or
\* assign-key request that an admin addresses to user 1 is answered 404 and
\* changes no user, key or device.
C31_SuperadminProtected ==
    [][/\ users'[SUPERADMIN_ID] = users[SUPERADMIN_ID]
       /\ \A a \in DOMAIN users :
             ( /\ resp'.op \in {"update_user", "extend", "assign"}
               /\ resp'.caller = a /\ resp'.target = SUPERADMIN_ID
               /\ AdminRequired(a) = 200 )
             => (resp'.code = 404 /\ UNCHANGED db)]_vars

\* a promoted admin who has changed its own password has just been refused an
\* operation on the superadmin, who holds an activated key
C31_Witness ==
    /\ resp.op \in {"update_user", "extend", "assign"}
    /\ resp.target = SUPERADMIN_ID /\ resp.code = 404
    /\ resp.caller # SUPERADMIN_ID /\ resp.caller \in DOMAIN users
    /\ users[resp.caller].is_admin /\ users[resp.caller].is_active
    /\ users[resp.caller].password_hash = "h1"
    /\ ActivatedKeysOf(SUPERADMIN_ID) # {}


\* C32: in every state, every key whose status is activated has
\* expires_at = activated_at + duration_days days.
C32_WindowMatchesDuration ==
    \A k \in DOMAIN keys :
        keys[k].status = "activated" =>
            /\ keys[k].activated_at # NULL
            /\ keys[k].expires_at # NULL
            /\ keys[k].expires_at = PlusDays(keys[k].activated_at, keys[k].duration_days)


\* an entitlement has just been reported, to the account itself or to an admin
Viewed == resp.op \in {"me", "login", "status", "get_user"} /\ resp.code = 200

\* the account the report is about
Subject == IF resp.op = "get_user" THEN resp.target ELSE resp.caller

\* C33: the status value just reported for an account is the one each of the
\* three evaluations gives for that account at this instant: the one behind
\* register / login / me, GET /activation/status, and GET /admin/users/{id}
\* where that endpoint answers for the account.
C33_SameStatus ==
    Viewed =>
        /\ {a.status : a \in GetActivationStatus(Subject, now)} = {resp.act.status}
        /\ {a.status : a \in StatusResult(Subject, now)} = {resp.act.status}
        /\ ~TargetNotFound(Subject) =>
              {a.status : a \in GetUserActivation(Subject, now)} = {resp.act.status}

====
